---- MODULE Spec2Model ----
(***************************************************************************)
(* Signal-state synchronisation of the Project Label extension:            *)
(*   - the configuration store (accessibility.signals.* and                *)
(*     projectLabel.silenceAllSounds),                                     *)
(*   - setSilenceAllSounds (parallel fan-out of writes) and its callers,   *)
(*   - SettingsPanel: message handlers, the debounced _sendSignalStates    *)
(*     and the immediate _doSendSignalStates,                              *)
(*   - the webview script (master checkbox, per-signal checkboxes).        *)
(* Time is counted in ticks of TickMs milliseconds.                        *)
(***************************************************************************)
EXTENDS Integers, Sequences, FiniteSets, Bags, TLC

\* ------------------------------------------------------------------ bounds
MaxInFlight == 2    \* concurrent setSilenceAllSounds invocations and
                    \* updateSignal writes
MaxQueue == 2       \* undelivered messages to the webview
MaxStimuli == 1     \* user / environment events in one behaviour
TickMs == 100       \* length of one tick in ms
MaxToggles == 2     \* master toggles in one behaviour of SpecOverlap
MaxPanels == 2      \* SettingsPanel instances created (SpecLifecycle)
MaxPanelEvents == 3 \* show, close and configuration events (SpecLifecycle)

\* -------------------------------------------------------- program constants
DebounceMs == 300       \* setTimeout(..., 300) in _sendSignalStates
InitialDelayMs == 200   \* setTimeout(..., 200) in _update

D == DebounceMs \div TickMs
InitialDelay == InitialDelayMs \div TickMs

Range(s) == {s[i] : i \in DOMAIN s}

\* extension.ts: keys written by the master-toggle fan-out
ALL_SOUND_SIGNALS ==
  << "chatEditModifiedFile", "chatRequestSent", "chatResponseReceived",
     "chatUserActionRequired", "editsKept", "nextEditSuggestion",
     "codeActionApplied", "codeActionTriggered", "clear", "progress",
     "lineHasBreakpoint", "lineHasError", "lineHasFoldedArea",
     "lineHasInlineSuggestion", "lineHasWarning", "noInlayHints",
     "onDebugBreak",
     "taskCompleted", "taskFailed",
     "terminalBell", "terminalCommandFailed", "terminalCommandSucceeded",
     "terminalQuickFix",
     "diffLineDeleted", "diffLineInserted", "diffLineModified",
     "notebookCellCompleted", "notebookCellFailed",
     "voiceRecordingStarted", "voiceRecordingStopped",
     "save", "format",
     "positionHasError", "positionHasWarning" >>

\* variant: ALL_SIGNALS without "save"
ALL_SIGNALS_NoSave ==
  << "chatEditModifiedFile", "chatRequestSent", "chatResponseReceived",
     "chatUserActionRequired", "editsKept", "nextEditSuggestion",
     "codeActionApplied", "codeActionTriggered", "clear", "progress",
     "lineHasBreakpoint", "lineHasError", "lineHasFoldedArea",
     "lineHasInlineSuggestion", "lineHasWarning", "noInlayHints",
     "onDebugBreak", "taskCompleted", "taskFailed",
     "terminalBell", "terminalCommandFailed", "terminalCommandSucceeded",
     "terminalQuickFix", "diffLineDeleted", "diffLineInserted",
     "diffLineModified", "notebookCellCompleted", "notebookCellFailed",
     "voiceRecordingStarted", "voiceRecordingStopped",
     "format", "positionHasError", "positionHasWarning" >>

\* SettingsPanel.ALL_SIGNALS: keys of every snapshot
ALL_SIGNALS ==
  << "chatEditModifiedFile", "chatRequestSent", "chatResponseReceived",
     "chatUserActionRequired", "editsKept", "nextEditSuggestion",
     "codeActionApplied", "codeActionTriggered", "clear", "progress",
     "lineHasBreakpoint", "lineHasError", "lineHasFoldedArea",
     "lineHasInlineSuggestion", "lineHasWarning", "noInlayHints",
     "onDebugBreak", "taskCompleted", "taskFailed",
     "terminalBell", "terminalCommandFailed", "terminalCommandSucceeded",
     "terminalQuickFix", "diffLineDeleted", "diffLineInserted",
     "diffLineModified", "notebookCellCompleted", "notebookCellFailed",
     "voiceRecordingStarted", "voiceRecordingStopped",
     "save", "format", "positionHasError", "positionHasWarning" >>

\* variant: the HTML lacks the checkbox of the signal "clear"
SIGNAL_CBS_NoClear == SelectSeq(ALL_SIGNALS, LAMBDA k : k # "clear")

\* webview HTML: data-signal of every <input class="signal-cb">
SIGNAL_CBS ==
  << "chatRequestSent", "chatResponseReceived", "chatUserActionRequired",
     "chatEditModifiedFile", "editsKept", "nextEditSuggestion",
     "codeActionApplied", "codeActionTriggered", "clear", "progress",
     "lineHasError", "lineHasWarning", "lineHasBreakpoint",
     "lineHasFoldedArea", "lineHasInlineSuggestion", "noInlayHints",
     "onDebugBreak", "positionHasError", "positionHasWarning",
     "taskCompleted", "taskFailed",
     "terminalBell", "terminalCommandFailed", "terminalCommandSucceeded",
     "terminalQuickFix",
     "diffLineDeleted", "diffLineInserted", "diffLineModified",
     "notebookCellCompleted", "notebookCellFailed",
     "voiceRecordingStarted", "voiceRecordingStopped",
     "save", "format" >>

\* The 34 keys are handled alike, by loops over these lists.  The model
\* tracks the state of two of them: chatResponseReceived, a Copilot Chat key
\* and the one the sound status bar samples, and save, which is neither.
ModelKeys == {"chatResponseReceived", "save"}

FanoutKeys == ModelKeys \cap Range(ALL_SOUND_SIGNALS)
SnapshotKeys == ModelKeys \cap Range(ALL_SIGNALS)
CbKeys == ModelKeys \cap Range(SIGNAL_CBS)

FlagKey == "silenceAllSounds"

\* accessibility.signals.<key>: the setting is absent, or its sound field
SoundValues == {"absent", "on", "off"}

VARIABLES
  store,          \* accessibility.signals: key -> sound value
  flag,           \* projectLabel.silenceAllSounds
  invs,           \* bag of running setSilenceAllSounds invocations
  writes,         \* bag of updateSignal writes in flight
  timers,         \* pending setTimeout callbacks of the panel
  signalDebounce, \* SettingsPanel._signalDebounce
  outbound,       \* postMessage queue, extension -> webview
  cb,             \* webview: checked of each .signal-cb
  masterCb,       \* webview: checked of #silenceAllSounds
  budget,         \* user / environment events still allowed
  sinceLast,      \* ticks since the last _sendSignalStates call (-1: none)
  sentSince,      \* debounced snapshots sent since that call
  burst,          \* accessibility.signals notifications in the running
                  \* burst (0: the last call was not one; counted up to 2)
  sinceFlush,     \* what reached the scheduler since the last flush
  idem,           \* completed runs of setSilenceAllSounds (SpecIdem only)
  copilot,        \* projectLabel.silenceCopilotChat and the run of
                  \* setCopilotChatSilence (SpecCopilot only)
  label,          \* label settings, status bar item and window title
                  \* (SpecLabel only)
  soundStatusBar, \* soundStatusBarItem.text: "mute" or "unmute"
  lifecycle,      \* SettingsPanel.currentPanel and the instances created
                  \* (SpecLifecycle only)
  ev              \* the step just taken

vars == << store, flag, invs, writes, timers, signalDebounce,
           outbound, cb, masterCb, budget, sinceLast, sentSince, burst,
           sinceFlush, idem, copilot, label, soundStatusBar, lifecycle,
           ev >>

sched == << timers, signalDebounce, sinceLast, sentSince, burst,
           sinceFlush >>
webview == << cb, masterCb >>
others == << copilot, label, lifecycle >>


\* ------------------------------------------------------------ the store
\* variant: anything but sound 'on' counts as muted
IsMuted_NotOn(v) == v # "on"

\* _doSendSignalStates / toggle command / status bar: val?.sound === 'off'
IsMuted(v) == v = "off"

\* variant: the two sound values exchanged
SoundValue_Inverted(silent) == IF silent THEN "on" ELSE "off"

\* setSilenceAllSounds, updateSignal: { sound: silent ? 'off' : 'on' }
SoundValue(silent) == IF silent THEN "off" ELSE "on"

\* variant: a write reaches every signal
ApplyWrite_All(st, k, v) == [j \in DOMAIN st |-> v]

\* variant: a write of the value already held flips it
ApplyWrite_Toggle(st, k, v) ==
  [st EXCEPT ![k] = IF @ # v THEN v ELSE IF v = "off" THEN "on" ELSE "off"]

\* WorkspaceConfiguration.update: the value the store holds after a write
\* that the store accepts
ApplyWrite(st, k, v) == [st EXCEPT ![k] = v]

Add(b, e) == b (+) SetToBag({e})
Remove(b, e) == b (-) SetToBag({e})

Min(a, b) == IF a < b THEN a ELSE b

\* ------------------------------------------------- SettingsPanel scheduler
\* The panel-side state an operation reads and writes, as one record:
\*   timers, deb (= _signalDebounce), out (= messages posted, undelivered)
\*   and the history fields sinceLast, sentSince, burst, sinceFlush.
PanelState ==
  [ timers |-> timers, deb |-> signalDebounce, out |-> outbound,
    sinceLast |-> sinceLast, sentSince |-> sentSince, burst |-> burst,
    sinceFlush |-> sinceFlush ]

\* clearTimeout(this._signalDebounce): the timer the field refers to, if
\* it is still pending, is removed; a stale handle removes nothing
ClearTimeout(ts) == {t \in ts : ~t.held}

\* variant: no clearTimeout before the new timer
CancelPending_Keep(p) == p.timers

\* _sendSignalStates, first statement: if (_signalDebounce) clearTimeout(..)
CancelPending(p) ==
  IF p.deb # "undefined" THEN ClearTimeout(p.timers) ELSE p.timers

\* the timer _signalDebounce refers to has not expired yet
Pending(p) == p.deb # "undefined" /\ \E t \in p.timers : t.held

\* The history of a call of _sendSignalStates.  why names the caller:
\* "signals" is the listener, for a change of accessibility.signals;
\* "config" is the listener, for a change of projectLabel; "other" is any
\* other caller.
Called(p, why) ==
  [ p EXCEPT
      !.sinceLast = 0,
      !.sentSince = 0,
      !.burst = IF why # "signals" THEN 0
                ELSE IF Pending(p) /\ p.burst > 0 THEN Min(p.burst + 1, 2)
                ELSE 1,
      !.sinceFlush = IF p.sinceFlush = "none" THEN "none"
                     ELSE IF why \in {"signals", "config"}
                             \/ p.sinceFlush = "notif"
                          THEN "notif" ELSE "other" ]

\* variant: the timer is one tick short of the delay
NewTimer_Short == [kind |-> "debounce", rem |-> D - 1, held |-> TRUE]

\* setTimeout(() => this._doSendSignalStates(), 300)
NewTimer == [kind |-> "debounce", rem |-> D, held |-> TRUE]

\* variant: a call made while a timer is pending keeps that timer
SendSignalStates_Throttle(p, why) ==
  [ Called(p, why) EXCEPT
      !.timers = IF Pending(p) THEN p.timers
                 ELSE {[t EXCEPT !.held = FALSE] : t \in p.timers}
                        \cup {NewTimer},
      !.deb = "handle" ]

\* variant: a call made while a timer is pending adds the delay to the
\* time that timer had left
SendSignalStates_Additive(p, why) ==
  [ Called(p, why) EXCEPT
      !.timers = {[t EXCEPT !.held = FALSE] : t \in CancelPending(p)}
                   \cup {[NewTimer EXCEPT !.rem =
                            IF Pending(p)
                            THEN Min(2 * D,
                                     D + (CHOOSE t \in p.timers : t.held).rem)
                            ELSE D]},
      !.deb = "handle" ]

\* _sendSignalStates: cancel, then _signalDebounce = setTimeout(.., 300)
SendSignalStates(p, why) ==
  [ Called(p, why) EXCEPT
      !.timers = {[t EXCEPT !.held = FALSE] : t \in CancelPending(p)}
                   \cup {NewTimer},
      !.deb = "handle" ]

\* _doSendSignalStates: read every key of ALL_SIGNALS from the store now
Snapshot(st) == [k \in SnapshotKeys |-> IsMuted(st[k])]

\* variant: the snapshot overtakes the messages already posted
DoSendSignalStates_Front(p, st) ==
  [ p EXCEPT !.out = << [type |-> "signalStates",
                         states |-> Snapshot(st)] >> \o p.out ]

DoSendSignalStates(p, st) ==
  [ p EXCEPT !.out = Append(p.out, [type |-> "signalStates",
                                    states |-> Snapshot(st)]) ]

\* _sendCurrentSettings: post settingsUpdate, then _sendSignalStates()
SendCurrentSettings(p, fl, why) ==
  SendSignalStates(
    [ p EXCEPT !.out = Append(p.out, [type |-> "settingsUpdate",
                                      silenceAllSounds |-> fl]) ],
    why)

\* the panel's onDidChangeConfiguration listener
PanelOnDidChangeConfiguration(p, fl, affectsProjectLabel, affectsSignals) ==
  LET p1 == IF affectsProjectLabel THEN SendCurrentSettings(p, fl, "config")
            ELSE p
  IN  IF affectsSignals THEN SendSignalStates(p1, "signals") ELSE p1

\* variant: the flush sends without clearing the timer
FlushCancel_Keep(p) == p.timers

\* case 'silenceAll', after the await: cancel the debounce, send now
FlushCancel(p) ==
  IF p.deb # "undefined" THEN ClearTimeout(p.timers) ELSE p.timers

\* variant: the flush sends only if it had a timer to cancel
Flush_IfPending(p, st) ==
  IF Pending(p)
  THEN DoSendSignalStates(
         [ p EXCEPT !.timers = FlushCancel(p),
                    !.deb = "undefined",
                    !.sinceFlush = "clean" ],
         st)
  ELSE [ p EXCEPT !.deb = "undefined", !.sinceFlush = "clean" ]

Flush(p, st) ==
  DoSendSignalStates(
    [ p EXCEPT !.timers = FlushCancel(p),
               !.deb = "undefined",
               !.sinceFlush = "clean" ],
    st)

\* writes the primed panel variables from a panel-state record
SetPanel(p) ==
  /\ Len(p.out) <= MaxQueue
  /\ timers' = p.timers
  /\ signalDebounce' = p.deb
  /\ outbound' = p.out
  /\ sinceLast' = p.sinceLast
  /\ sentSince' = p.sentSince
  /\ burst' = p.burst
  /\ sinceFlush' = p.sinceFlush

Quiet == [type |-> "none"]

\* ---------------------------------------------------------------- Init
\* The extension is activated and a SettingsPanel has just been constructed:
\* _update() has scheduled the 200 ms initial send; the webview shows its
\* HTML, every checkbox unchecked.
\* variant: the sample is taken from another key
CurrentlySilent_Save(st) == IsMuted(st["save"])

\* toggleSilenceAllSounds: the sample it takes for "currently silent"
CurrentlySilent(st) == IsMuted(st["chatResponseReceived"])

\* updateSoundStatusBar: the flag, or else the chatResponseReceived sample
StatusText(st, fl) ==
  IF fl \/ IsMuted(st["chatResponseReceived"]) THEN "mute" ELSE "unmute"

\* no history of completed runs is kept
NoIdem == [runs |-> 0]

\* outside SpecCopilot and SpecLabel
NoCopilot == [run |-> "none"]
NoLabel == [text |-> "none"]
NoLifecycle == [run |-> "none"]

InitProgram ==
  /\ store \in [ModelKeys -> SoundValues]
  /\ flag \in BOOLEAN
  /\ invs = EmptyBag
  /\ writes = EmptyBag
  /\ timers = {[kind |-> "initial", rem |-> InitialDelay, held |-> FALSE]}
  /\ signalDebounce = "undefined"
  /\ outbound = << >>
  /\ cb = [k \in CbKeys |-> FALSE]
  /\ masterCb = FALSE
  /\ budget = MaxStimuli
  /\ sinceLast = -1
  /\ sentSince = 0
  /\ burst = 0
  /\ sinceFlush = "none"
  /\ soundStatusBar = StatusText(store, flag)
  /\ copilot = NoCopilot
  /\ label = NoLabel
  /\ lifecycle = NoLifecycle
  /\ ev = Quiet

Init == InitProgram /\ idem = NoIdem


\* ------------------------------------------------ setSilenceAllSounds
\* A running invocation: who called it, its argument, the fan-out writes
\* not yet settled, the keys whose write the store rejected, and where it
\* stands:
\*   "fanout" awaiting Promise.all, "flag" awaiting the write of
\*   projectLabel.silenceAllSounds, "threw" ended by a rejection nobody
\*   caught.
\* origin "panel" is the silenceAll handler awaiting executeCommand: the
\* command is registered in the same extension host, so the handler resumes
\* in the turn of the event loop in which setSilenceAllSounds returns.
\* variant: the writes are awaited one by one; only that of the first
\* tracked key is issued before the first await
Invocation_Sequential(origin, silent) ==
  [origin |-> origin, silent |-> silent,
   pending |-> {"chatResponseReceived"},
   failed |-> {}, pc |-> "fanout"]

Invocation(origin, silent) ==
  [origin |-> origin, silent |-> silent, pending |-> FanoutKeys,
   failed |-> {}, pc |-> "fanout"]

\* variant: the fan-out writes have no rejection handler
FanoutCatches_Not == FALSE

\* .then(undefined, () => {}) on every fan-out write
FanoutCatches == TRUE

\* variant: the write of the flag is awaited outside any try
FlagCatches_Not == FALSE

\* try { await ...update('silenceAllSounds', ...) } catch { }
FlagCatches == TRUE

\* variant: the updateSignal write is awaited outside any try
UpdateSignalCatches_Not == FALSE

\* case 'updateSignal': try { await signals.update(...) } catch { }
UpdateSignalCatches == TRUE

\* variant: the fan-out is not awaited
AllSettled_Any(pending) == TRUE

\* await Promise.all(...): resumes once no write of the fan-out is pending
AllSettled(pending) == pending = {}

\* handlers and commands awaiting the store
InFlight == BagCardinality(invs) + BagCardinality(writes)

\* variant: the stored flag is never acted upon
ApplySilenceAllSoundsSetting_Never(b, fl) == b

\* the extension's onDidChangeConfiguration listener, for a change of
\* projectLabel.silenceAllSounds: applySilenceAllSoundsSetting()
ApplySilenceAllSoundsSetting(b, fl) ==
  IF fl THEN Add(b, Invocation("apply", TRUE)) ELSE b

\* ------------------------------------------------------- webview script
\* variant: some instead of every
SyncMasterCheckbox_Some(c) == \E k \in CbKeys : c[k]

\* variant: the master checkbox is left as it is
SyncMasterCheckbox_Unchanged(c) == masterCb

\* syncMasterCheckbox: every .signal-cb checked
SyncMasterCheckbox(c) == \A k \in CbKeys : c[k]

\* variant: applySettings sets the master checkbox from the settings
ApplySettings_SetsMaster(master, silenceAllSounds) == silenceAllSounds

\* applySettings: the master checkbox is not among the controls it sets
ApplySettings(master, silenceAllSounds) == master

\* variant: a snapshot checks boxes and never unchecks one
ApplySignalStates_KeepChecked(c, states) ==
  [k \in CbKeys |-> IF k \in DOMAIN states THEN c[k] \/ states[k] ELSE c[k]]

\* applySignalStates: overwrite each checkbox the snapshot has a value for
ApplySignalStates(c, states) ==
  [k \in CbKeys |-> IF k \in DOMAIN states THEN states[k] ELSE c[k]]

\* ---------------------------------------------------------------- actions
\* variant: the master checkbox sends one updateSignal per signal checkbox
UserToggleMaster_PerSignal ==
  /\ budget > 0
  /\ InFlight + Cardinality(CbKeys) <= MaxInFlight
  /\ LET silent == ~masterCb IN
       /\ masterCb' = silent
       /\ cb' = [k \in CbKeys |-> silent]
       /\ writes' = writes (+) SetToBag({[key |-> k,
                                          value |-> SoundValue(silent)] :
                                         k \in CbKeys})
       /\ ev' = [type |-> "userMaster", value |-> silent,
                 invs |-> BagCardinality(invs),
                 writes |-> BagCardinality(writes)]
  /\ budget' = budget - 1
  /\ UNCHANGED << store, flag, invs, sched, outbound, idem, others,
                  soundStatusBar >>

\* User clicks the master checkbox; the silenceAll handler starts
\* executeCommand(silenceAllSounds | unsilenceAllSounds).
UserToggleMaster ==
  /\ budget > 0
  /\ InFlight < MaxInFlight
  /\ LET silent == ~masterCb IN
       /\ masterCb' = silent
       /\ cb' = [k \in CbKeys |-> silent]
       /\ invs' = Add(invs, Invocation("panel", silent))
       /\ ev' = [type |-> "userMaster", value |-> silent,
                 invs |-> BagCardinality(invs),
                 writes |-> BagCardinality(writes)]
  /\ budget' = budget - 1
  /\ UNCHANGED << store, flag, writes, sched, outbound, idem, others,
                  soundStatusBar >>

\* User clicks one signal checkbox; the updateSignal handler issues the write.
UserToggleSignal(k) ==
  /\ budget > 0
  /\ InFlight < MaxInFlight
  /\ LET c == [cb EXCEPT ![k] = ~cb[k]] IN
       /\ cb' = c
       /\ masterCb' = SyncMasterCheckbox(c)
       /\ writes' = Add(writes, [key |-> k, value |-> SoundValue(c[k])])
  /\ budget' = budget - 1
  /\ ev' = [type |-> "userSignal", key |-> k,
            invs |-> BagCardinality(invs),
            writes |-> BagCardinality(writes)]
  /\ UNCHANGED << store, flag, invs, sched, outbound, idem, others,
                  soundStatusBar >>

\* An updateSignal write settles: accepted (store changes, listeners run)
\* or rejected (caught by the handler's try/catch).
SettleWrite(w, ok) ==
  /\ BagIn(w, writes)
  /\ LET st == IF ok THEN ApplyWrite(store, w.key, w.value)
               ELSE store
     IN /\ store' = st
        /\ SetPanel(PanelOnDidChangeConfiguration(PanelState, flag, FALSE,
                                                  st # store))
  /\ writes' = Remove(writes, w)
  /\ ev' = [type |-> "wrote", key |-> w.key, value |-> w.value, ok |-> ok,
            old |-> store[w.key], threw |-> ~ok /\ ~UpdateSignalCatches]
  /\ UNCHANGED << flag, invs, webview, budget, idem, others,
                  soundStatusBar >>

\* One write of a fan-out settles.
SettleFanout(i, k, ok) ==
  /\ BagIn(i, invs)
  /\ k \in i.pending
  /\ LET st == IF ok THEN ApplyWrite(store, k, SoundValue(i.silent))
               ELSE store
         left == i.pending \ {k}
         pc == IF ~ok /\ ~FanoutCatches THEN "threw"
               ELSE IF i.pc = "fanout" /\ AllSettled(left) THEN "flag"
               ELSE i.pc
     IN /\ store' = st
        /\ SetPanel(PanelOnDidChangeConfiguration(PanelState, flag, FALSE,
                                                  st # store))
        /\ invs' = Add(Remove(invs, i),
                       [i EXCEPT !.pending = left, !.pc = pc,
                                 !.failed = IF ok THEN @ ELSE @ \cup {k}])
  /\ ev' = Quiet
  /\ UNCHANGED << flag, writes, webview, budget, idem, others,
                  soundStatusBar >>

\* The write of projectLabel.silenceAllSounds settles: the listeners run if
\* the value changed, setSilenceAllSounds shows its message, updates the
\* status bar and returns; a silenceAll handler awaiting it then cancels the
\* debounce and sends the snapshot at once.
\* variant: the store notifies of every accepted write, changed or not
Notifies_Always(old, new) == TRUE

\* onDidChangeConfiguration runs for a write that changes the value
Notifies(old, new) == old # new

SettleFlagWrite(i, ok) ==
  /\ BagIn(i, invs)
  /\ i.pc = "flag"
  /\ LET fl == IF ok THEN i.silent ELSE flag
         changed == Notifies(flag, fl)
         rest == Remove(invs, i)
         threw == ~ok /\ ~FlagCatches
         done == [i EXCEPT !.failed = IF ok THEN @ ELSE @ \cup {FlagKey}]
         after == IF threw THEN Add(rest, [done EXCEPT !.pc = "threw"])
                  ELSE rest
         spawned == IF changed THEN ApplySilenceAllSoundsSetting(after, fl)
                    ELSE after
         heard == PanelOnDidChangeConfiguration(PanelState, fl, changed,
                                                FALSE)
         flushes == i.origin = "panel" /\ ~threw
     IN /\ flag' = fl
        /\ BagCardinality(spawned) + BagCardinality(writes) <= MaxInFlight
        /\ invs' = spawned
        /\ soundStatusBar' = IF threw THEN soundStatusBar
                              ELSE StatusText(store, fl)
        /\ SetPanel(IF flushes THEN Flush(heard, store) ELSE heard)
        /\ ev' = IF threw THEN Quiet
                 ELSE [type |-> IF flushes THEN "flush" ELSE "returned",
                       pending |-> done.pending, silent |-> done.silent,
                       failed |-> done.failed, changed |-> changed]
  /\ UNCHANGED << store, writes, webview, budget, others >>

SettleFlag(i, ok) == SettleFlagWrite(i, ok) /\ UNCHANGED idem

\* The debounce timer expires: _doSendSignalStates().
DebounceFire(t) ==
  /\ t \in timers
  /\ t.kind = "debounce"
  /\ t.rem = 0
  /\ SetPanel(DoSendSignalStates(
       [PanelState EXCEPT !.timers = timers \ {t},
                          !.sentSince = Min(sentSince + 1, 2)],
       store))
  /\ ev' = [type |-> "timerSend", sinceLast |-> sinceLast,
            sinceFlush |-> sinceFlush, burst |-> burst]
  /\ UNCHANGED << store, flag, invs, writes, webview, budget, idem, others,
                  soundStatusBar >>

\* The 200 ms timer of _update expires: _sendCurrentSettings().
InitialFire(t) ==
  /\ t \in timers
  /\ t.kind = "initial"
  /\ t.rem = 0
  /\ SetPanel(SendCurrentSettings(
       [PanelState EXCEPT !.timers = timers \ {t}], flag, "other"))
  /\ ev' = Quiet
  /\ UNCHANGED << store, flag, invs, writes, webview, budget, idem, others,
                  soundStatusBar >>

\* One tick of time passes; a timer that is due fires first.
Tick ==
  /\ \A t \in timers : t.rem > 0
  /\ timers # {} \/ sinceLast \in 0..D
  /\ timers' = {[t EXCEPT !.rem = @ - 1] : t \in timers}
  /\ sinceLast' = IF sinceLast = -1 THEN -1 ELSE Min(sinceLast + 1, D + 1)
  /\ ev' = Quiet
  /\ UNCHANGED << store, flag, invs, writes, signalDebounce,
                  outbound, webview, budget, sentSince, burst, sinceFlush,
                  idem, others,
                  soundStatusBar >>

\* The webview's message listener takes the next message.
WebviewReceive ==
  /\ outbound # << >>
  /\ LET msg == Head(outbound) IN
       IF msg.type = "signalStates"
       THEN LET c == ApplySignalStates(cb, msg.states) IN
              /\ cb' = c
              /\ masterCb' = SyncMasterCheckbox(c)
              /\ ev' = [type |-> "applied", states |-> msg.states,
                        overwrote |-> \E k \in CbKeys \cap DOMAIN msg.states :
                                         cb[k] # msg.states[k]]
       ELSE /\ cb' = cb
            /\ masterCb' = ApplySettings(masterCb, msg.silenceAllSounds)
            /\ ev' = [type |-> "settingsApplied",
                      silenceAllSounds |-> msg.silenceAllSounds]
  /\ outbound' = Tail(outbound)
  /\ UNCHANGED << store, flag, invs, writes, sched, budget, idem, others,
                  soundStatusBar >>

\* variant: requestSignals cancels the timer and sends at once
RequestSignals_Flush ==
  /\ budget > 0
  /\ SetPanel(Flush(PanelState, store))
  /\ budget' = budget - 1
  /\ ev' = [type |-> "requestSignals", queued |-> Len(outbound),
            replaced |-> Pending(PanelState)]
  /\ UNCHANGED << store, flag, invs, writes, webview, idem, others,
                  soundStatusBar >>

\* An inbound requestSignals message.
RequestSignals ==
  /\ budget > 0
  /\ SetPanel(SendSignalStates(PanelState, "other"))
  /\ budget' = budget - 1
  /\ ev' = [type |-> "requestSignals", queued |-> Len(outbound),
            replaced |-> Pending(PanelState)]
  /\ UNCHANGED << store, flag, invs, writes, webview, idem, others,
                  soundStatusBar >>

\* An inbound requestSettings message (the webview script sends it on load).
RequestSettings ==
  /\ budget > 0
  /\ SetPanel(SendCurrentSettings(PanelState, flag, "other"))
  /\ budget' = budget - 1
  /\ ev' = Quiet
  /\ UNCHANGED << store, flag, invs, writes, webview, idem, others,
                  soundStatusBar >>

\* Somebody else changes a signal in the store (settings.json, settings UI).
ExternalChange(k, v) ==
  /\ budget > 0
  /\ store[k] # v
  /\ store' = [store EXCEPT ![k] = v]
  /\ SetPanel(PanelOnDidChangeConfiguration(PanelState, flag, FALSE, TRUE))
  /\ budget' = budget - 1
  /\ ev' = Quiet
  /\ UNCHANGED << flag, invs, writes, webview, idem, others,
                  soundStatusBar >>

\* Somebody changes a projectLabel setting: silenceAllSounds (b # flag) or
\* any other one (b = flag).
ProjectLabelChange(b) ==
  /\ budget > 0
  /\ flag' = b
  /\ LET spawned == IF b # flag THEN ApplySilenceAllSoundsSetting(invs, b)
                    ELSE invs
     IN /\ BagCardinality(spawned) + BagCardinality(writes) <= MaxInFlight
        /\ invs' = spawned
  /\ SetPanel(PanelOnDidChangeConfiguration(PanelState, b, TRUE, FALSE))
  /\ soundStatusBar' = IF b # flag THEN StatusText(store, b)
                        ELSE soundStatusBar
  /\ budget' = budget - 1
  /\ ev' = Quiet
  /\ UNCHANGED << store, writes, webview, idem, others >>

\* projectLabel.toggleSilenceAllSounds (click on the sound status bar item)
ToggleSilenceAllSounds ==
  /\ budget > 0
  /\ InFlight < MaxInFlight
  /\ invs' = Add(invs, Invocation("cmd",
                   ~CurrentlySilent(store)))
  /\ budget' = budget - 1
  /\ ev' = [type |-> "toggleCmd", silent |-> ~CurrentlySilent(store)]
  /\ UNCHANGED << store, flag, writes, sched, outbound, webview, idem, others,
                  soundStatusBar >>

Next ==
  \/ UserToggleMaster
  \/ \E k \in CbKeys : UserToggleSignal(k)
  \/ \E w \in BagToSet(writes) : \E ok \in BOOLEAN : SettleWrite(w, ok)
  \/ \E i \in BagToSet(invs) : \E k \in FanoutKeys : \E ok \in BOOLEAN :
        SettleFanout(i, k, ok)
  \/ \E i \in BagToSet(invs) : \E ok \in BOOLEAN : SettleFlag(i, ok)
  \/ \E t \in timers : DebounceFire(t)
  \/ \E t \in timers : InitialFire(t)
  \/ Tick
  \/ WebviewReceive
  \/ RequestSignals
  \/ RequestSettings
  \/ \E k \in ModelKeys : \E v \in SoundValues : ExternalChange(k, v)
  \/ \E b \in BOOLEAN : ProjectLabelChange(b)
  \/ ToggleSilenceAllSounds

Spec == Init /\ [][Next]_vars

\* The program driven only by the settings panel's master checkbox and
\* signal checkboxes and by the toggle command: nothing else writes the
\* store or the flag.
NextIntents ==
  \/ UserToggleMaster
  \/ \E k \in CbKeys : UserToggleSignal(k)
  \/ ToggleSilenceAllSounds
  \/ \E w \in BagToSet(writes) : \E ok \in BOOLEAN : SettleWrite(w, ok)
  \/ \E i \in BagToSet(invs) : \E k \in FanoutKeys : \E ok \in BOOLEAN :
        SettleFanout(i, k, ok)
  \/ \E i \in BagToSet(invs) : \E ok \in BOOLEAN : SettleFlag(i, ok)
  \/ \E t \in timers : DebounceFire(t)
  \/ \E t \in timers : InitialFire(t)
  \/ Tick
  \/ WebviewReceive

SpecIntents == Init /\ [][NextIntents]_vars

\* Time passes and a timer that is due runs its callback; the webview's
\* event loop takes the messages posted to it.
TimersRun ==
  /\ WF_vars(Tick)
  /\ WF_vars(\E t \in timers : DebounceFire(t))
  /\ WF_vars(\E t \in timers : InitialFire(t))
  /\ WF_vars(WebviewReceive)

\* The scheduler with everything that calls it: notifications, inbound
\* messages, the initial send and the flush of a master toggle (toggles
\* follow one another).
NextTimers ==
  \/ RequestSignals
  \/ RequestSettings
  \/ \E k \in ModelKeys : \E v \in SoundValues : ExternalChange(k, v)
  \/ \E b \in BOOLEAN : ProjectLabelChange(b)
  \/ InFlight = 0 /\ UserToggleMaster
  \/ \E i \in BagToSet(invs) : \E k \in FanoutKeys : \E ok \in BOOLEAN :
        SettleFanout(i, k, ok)
  \/ \E i \in BagToSet(invs) : \E ok \in BOOLEAN : SettleFlag(i, ok)
  \/ \E t \in timers : DebounceFire(t)
  \/ \E t \in timers : InitialFire(t)
  \/ Tick
  \/ WebviewReceive

SpecTimers == Init /\ [][NextTimers]_vars /\ TimersRun

\* ------------------------------------------- runs of setSilenceAllSounds
\* The same program, its runs of setSilenceAllSounds following one another
\* with no other writer of the store, and with one more history:
\*   failing  the keys whose writes the store rejects, every time
\*   runs     how many runs have completed (counted up to 2)
\*   silent   the argument of the latest completed run, and
\*   before   that of the run before it
\*   was, is  the store when the latest completed run started and ended
\* A run is started by the projectLabel.silenceAllSounds command, by the
\* master checkbox, or by the extension's listener when the flag turns true.
InitIdem ==
  /\ InitProgram
  /\ idem \in {[failing |-> F, runs |-> 0, silent |-> FALSE,
                 before |-> FALSE, was |-> store, is |-> store] :
                 F \in SUBSET FanoutKeys}

\* the command projectLabel.silenceAllSounds
SilenceAllSounds ==
  /\ budget > 0
  /\ invs' = Add(invs, Invocation("cmd", TRUE))
  /\ budget' = budget - 1
  /\ ev' = Quiet
  /\ UNCHANGED << store, flag, writes, sched, outbound, webview, idem, others,
                  soundStatusBar >>

\* a run completes
CompleteRun(i, ok) ==
  /\ SettleFlagWrite(i, ok)
  /\ idem' = [idem EXCEPT !.runs = Min(@ + 1, 2),
                          !.silent = i.silent, !.before = idem.silent,
                          !.was = idem.is, !.is = store]

NextIdem ==
  \/ InFlight = 0 /\ SilenceAllSounds
  \/ InFlight = 0 /\ UserToggleMaster
  \/ \E i \in BagToSet(invs) : \E k \in FanoutKeys :
        SettleFanout(i, k, k \notin idem.failing)
  \/ \E i \in BagToSet(invs) : \E ok \in BOOLEAN : CompleteRun(i, ok)
  \/ \E t \in timers : DebounceFire(t)
  \/ \E t \in timers : InitialFire(t)
  \/ Tick
  \/ WebviewReceive

SpecIdem == InitIdem /\ [][NextIdem]_vars

\* Every write handed to the store settles (the promise of
\* WorkspaceConfiguration.update resolves or rejects), and the webview's
\* event loop takes the messages posted to it.
StoreSettles ==
  /\ WF_vars(\E i \in BagToSet(invs) : \E k \in FanoutKeys :
               SettleFanout(i, k, k \notin idem.failing))
  /\ WF_vars(\E i \in BagToSet(invs) : \E ok \in BOOLEAN : CompleteRun(i, ok))
  /\ WF_vars(WebviewReceive)

SpecIdemFair == SpecIdem /\ StoreSettles

\* ---------------------------------------------- setCopilotChatSilence
\* extension.ts: the accessibility.signals keys of Copilot Chat, in the
\* order of the loop
COPILOT_CHAT_SIGNALS ==
  << "chatEditModifiedFile", "chatRequestSent", "chatResponseReceived",
     "chatUserActionRequired", "editsKept", "nextEditSuggestion",
     "codeActionApplied", "codeActionTriggered", "clear", "progress" >>

\* the keys the store of SpecCopilot tracks: three of the list, one outside
CopilotModelKeys ==
  {"chatRequestSent", "chatResponseReceived", "progress", "save"}

InCopilotModel(k) == k \in CopilotModelKeys

\* the loop's keys among the tracked ones, in the loop's order
CopilotKeys == SelectSeq(COPILOT_CHAT_SIGNALS, InCopilotModel)

CopilotFlagKey == "silenceCopilotChat"

\* a call of setCopilotChatSilence(silent): next is the position in
\* CopilotKeys of the write it awaits, Len(CopilotKeys) + 1 for the write
\* of projectLabel.silenceCopilotChat
CopilotRun(silent, origin) == [silent |-> silent, origin |-> origin, next |-> 1]

\* variant: each write of the loop has its own rejection handler
CopilotIsolates_Each == TRUE

\* for (const key of COPILOT_CHAT_SIGNALS) await signals.update(...):
\* no try, no rejection handler
CopilotIsolates == FALSE

\* variant: the flag is never acted upon
ApplyCopilotSilenceSetting_Never(runs, fl) == runs

\* applyCopilotSilenceSetting: if (silence) await setCopilotChatSilence(true)
ApplyCopilotSilenceSetting(runs, fl) ==
  IF fl THEN runs \cup {CopilotRun(TRUE, "apply")} ELSE runs

\* the settings panel is not open and no master toggle is running
PanelClosed ==
  /\ flag = FALSE
  /\ invs = EmptyBag
  /\ writes = EmptyBag
  /\ timers = {}
  /\ signalDebounce = "undefined"
  /\ outbound = << >>
  /\ cb = [k \in CbKeys |-> FALSE]
  /\ masterCb = FALSE
  /\ sinceLast = -1
  /\ sentSince = 0
  /\ burst = 0
  /\ sinceFlush = "none"
  /\ idem = NoIdem
  /\ soundStatusBar = "unmute"

panel == << flag, invs, writes, sched, outbound, webview, idem,
            soundStatusBar, lifecycle >>

\* activate(): applyCopilotSilenceSetting() has run up to its first await.
\* copilot.failing are the keys whose write the store rejects.
InitCopilot ==
  /\ PanelClosed
  /\ lifecycle = NoLifecycle
  /\ label = NoLabel
  /\ budget = MaxStimuli
  /\ store \in [CopilotModelKeys -> SoundValues]
  /\ \E f \in BOOLEAN :
     \E F \in SUBSET (Range(CopilotKeys) \cup {CopilotFlagKey}) :
       copilot = [flag |-> f,
                  runs |-> ApplyCopilotSilenceSetting({}, f),
                  failing |-> F,
                  was |-> store]
  /\ ev = [type |-> "activate"]

\* the commands projectLabel.silenceCopilot / unsilenceCopilot
SilenceCopilot(silent) ==
  /\ budget > 0
  /\ copilot.runs = {}
  /\ budget' = budget - 1
  /\ copilot' = [copilot EXCEPT !.runs = {CopilotRun(silent, "cmd")}]
  /\ ev' = Quiet
  /\ UNCHANGED << store, panel, label >>

\* the command projectLabel.toggleSilenceCopilot: toggleBoolSetting writes
\* the negated flag; the extension's listener applies the setting
ToggleSilenceCopilot ==
  /\ budget > 0
  /\ copilot.runs = {}
  /\ budget' = budget - 1
  /\ LET ok == CopilotFlagKey \notin copilot.failing
         fl == IF ok THEN ~copilot.flag ELSE copilot.flag
     IN /\ copilot' = [copilot EXCEPT
                         !.flag = fl,
                         !.runs = IF fl # copilot.flag
                                  THEN ApplyCopilotSilenceSetting(@, fl)
                                  ELSE @]
        /\ ev' = [type |-> "copilotToggled", changed |-> fl # copilot.flag]
  /\ UNCHANGED << store, panel, label >>

\* the write of a signal that run r awaits settles
CopilotWrite(r) ==
  /\ r \in copilot.runs
  /\ r.next <= Len(CopilotKeys)
  /\ LET k == CopilotKeys[r.next]
         ok == k \notin copilot.failing
         rest == copilot.runs \ {r}
     IN IF ~ok /\ ~CopilotIsolates
        THEN /\ store' = store
             /\ copilot' = [copilot EXCEPT !.runs = rest]
             /\ ev' = [type |-> "copilotRejected", key |-> k,
                       at |-> r.next, silent |-> r.silent,
                       flag |-> copilot.flag]
        ELSE /\ store' = IF ok THEN ApplyWrite(store, k, SoundValue(r.silent))
                         ELSE store
             /\ copilot' = [copilot EXCEPT
                              !.runs = rest \cup {[r EXCEPT !.next = @ + 1]}]
             /\ ev' = Quiet
  /\ UNCHANGED << panel, label, budget >>

\* the write of projectLabel.silenceCopilotChat that run r awaits settles;
\* accepted, the listener applies the setting if it changed and the run
\* shows its message and returns
CopilotFlagWrite(r) ==
  /\ r \in copilot.runs
  /\ r.next = Len(CopilotKeys) + 1
  /\ LET ok == CopilotFlagKey \notin copilot.failing
         rest == copilot.runs \ {r}
         changed == ok /\ r.silent # copilot.flag
     IN IF ~ok
        THEN /\ copilot' = [copilot EXCEPT !.runs = rest]
             /\ ev' = [type |-> "copilotRejected", key |-> CopilotFlagKey,
                       at |-> r.next, silent |-> r.silent,
                       flag |-> copilot.flag]
        ELSE /\ copilot' = [copilot EXCEPT
                              !.flag = r.silent,
                              !.runs = IF changed
                                       THEN ApplyCopilotSilenceSetting(rest,
                                                                       r.silent)
                                       ELSE rest]
             /\ ev' = [type |-> "copilotDone", silent |-> r.silent,
                       changed |-> changed]
  /\ UNCHANGED << store, panel, label, budget >>

NextCopilot ==
  \/ \E silent \in BOOLEAN : SilenceCopilot(silent)
  \/ ToggleSilenceCopilot
  \/ \E r \in copilot.runs : CopilotWrite(r)
  \/ \E r \in copilot.runs : CopilotFlagWrite(r)

SpecCopilot == InitCopilot /\ [][NextCopilot]_vars

\* every write handed to the store settles
CopilotSettles ==
  /\ WF_vars(\E r \in copilot.runs : CopilotWrite(r))
  /\ WF_vars(\E r \in copilot.runs : CopilotFlagWrite(r))

SpecCopilotFair == SpecCopilot /\ CopilotSettles

\* ------------------------------------------------- the label (updateLabel)
\* A string is the sequence of its pieces; << >> is the empty string and
\* \o is concatenation.
Empty == << >>

\* Array.prototype.join
RECURSIVE Join(_, _)
Join(parts, separator) ==
  IF parts = << >> THEN Empty
  ELSE IF Len(parts) = 1 THEN parts[1]
  ELSE parts[1] \o separator \o Join(Tail(parts), separator)

\* template.replace(/\$\{label\}/g, labelText)
RECURSIVE ReplaceLabel(_, _)
ReplaceLabel(template, labelText) ==
  IF template = << >> THEN Empty
  ELSE (IF Head(template) = "${label}" THEN labelText
        ELSE << Head(template) >>)
       \o ReplaceLabel(Tail(template), labelText)

\* the default of projectLabel.titleTemplate
TitleTemplate ==
  << "[", "${label}", "] ", "${activeEditorShort}", "${separator}",
     "${rootName}" >>

\* the values of the projectLabel settings that buildLabelText and
\* updateLabel read
LabelConfigs ==
  [ customLabel : {Empty, << "Custom" >>},
    showProjectName : BOOLEAN,
    showProfile : BOOLEAN,
    separator : {<< " | " >>, Empty},
    showInStatusBar : BOOLEAN,
    updateWindowTitle : BOOLEAN ]

\* getProjectName(): the first workspace folder's name, or 'No Folder'
ProjectNames == {<< "MyProject" >>, << "No Folder" >>}

\* cachedProfileName ?? 'Default'
ProfileNames == {<< "Default" >>, << "Work" >>}

\* variant: the profile is shown whenever showProfile is on
BuildLabelText_AnyProfile(c, project, profile) ==
  IF c.customLabel # Empty THEN c.customLabel
  ELSE Join((IF c.showProjectName THEN << project >> ELSE << >>)
              \o (IF c.showProfile THEN << profile >> ELSE << >>),
            c.separator)

\* buildLabelText
BuildLabelText(c, project, profile) ==
  IF c.customLabel # Empty THEN c.customLabel
  ELSE LET parts1 == IF c.showProjectName THEN << project >> ELSE << >>
           parts2 == IF c.showProfile
                        /\ (profile # << "Default" >> \/ ~c.showProjectName)
                     THEN Append(parts1, profile) ELSE parts1
       IN Join(parts2, c.separator)

\* variant: the item is shown only when the window title is updated too
UpdateLabel_WithTitle(l) ==
  LET labelText == BuildLabelText(l.cfg, l.project, l.profile) IN
    IF labelText = Empty
    THEN [l EXCEPT !.labelText = labelText, !.visible = FALSE,
                   !.wrote = FALSE]
    ELSE [l EXCEPT !.labelText = labelText,
                   !.visible = l.cfg.showInStatusBar
                               /\ l.cfg.updateWindowTitle,
                   !.wrote = l.cfg.updateWindowTitle,
                   !.title = IF l.cfg.updateWindowTitle
                             THEN ReplaceLabel(TitleTemplate, labelText)
                             ELSE @]

\* updateLabel: labelText is the text it built, visible the state of
\* statusBarItem, wrote whether it wrote window.title, title the value of
\* window.title
UpdateLabel(l) ==
  LET labelText == BuildLabelText(l.cfg, l.project, l.profile) IN
    IF labelText = Empty
    THEN [l EXCEPT !.labelText = labelText, !.visible = FALSE,
                   !.wrote = FALSE]
    ELSE [l EXCEPT !.labelText = labelText,
                   !.visible = l.cfg.showInStatusBar,
                   !.wrote = l.cfg.updateWindowTitle,
                   !.title = IF l.cfg.updateWindowTitle
                             THEN ReplaceLabel(TitleTemplate, labelText)
                             ELSE @]

\* activate(): the item is created hidden, then updateLabel()
InitLabel ==
  /\ PanelClosed
  /\ lifecycle = NoLifecycle
  /\ copilot = NoCopilot
  /\ budget = MaxStimuli
  /\ store = [k \in ModelKeys |-> "absent"]
  /\ \E c \in LabelConfigs : \E project \in ProjectNames :
     \E profile \in ProfileNames :
       label = UpdateLabel([cfg |-> c, project |-> project,
                            profile |-> profile, labelText |-> Empty,
                            visible |-> FALSE, wrote |-> FALSE,
                            title |-> Empty])
  /\ ev = [type |-> "updateLabel", by |-> "activate", was |-> FALSE]

\* a projectLabel setting changes; the listener calls updateLabel
LabelConfigChange(c) ==
  /\ c # label.cfg
  /\ label' = UpdateLabel([label EXCEPT !.cfg = c])
  /\ ev' = [type |-> "updateLabel", by |-> "config", was |-> label.visible]
  /\ UNCHANGED << store, panel, copilot, budget >>

\* the command projectLabel.refresh
Refresh(profile) ==
  /\ label' = UpdateLabel([label EXCEPT !.profile = profile])
  /\ ev' = [type |-> "updateLabel", by |-> "refresh", was |-> label.visible]
  /\ UNCHANGED << store, panel, copilot, budget >>

\* onDidChangeWorkspaceFolders
WorkspaceFoldersChange(project) ==
  /\ project # label.project
  /\ label' = UpdateLabel([label EXCEPT !.project = project])
  /\ ev' = [type |-> "updateLabel", by |-> "folders", was |-> label.visible]
  /\ UNCHANGED << store, panel, copilot, budget >>

NextLabel ==
  \/ \E c \in LabelConfigs : LabelConfigChange(c)
  \/ \E profile \in ProfileNames : Refresh(profile)
  \/ \E project \in ProjectNames : WorkspaceFoldersChange(project)

SpecLabel == InitLabel /\ [][NextLabel]_vars

\* ================================================================ claims
DebounceTimers == {t \in timers : t.kind = "debounce"}

\* the message posted last
Sent == outbound[Len(outbound)]

\* C1 - Coalescing.  After any run of _sendSignalStates calls, each made
\* before the timer of the one before it expired, the debounced path sends
\* at most one snapshot; it sends it D after the last call; and once more
\* than D has passed since the last call exactly one has been sent, unless
\* a silenceAll flush cancelled the timer, in which case none is sent.
C1_Coalescing ==
  /\ sentSince <= 1
  /\ ev.type = "timerSend" => ev.sinceLast = D
  /\ sinceLast > D => sentSince = 1 \/ sinceFlush = "clean"

\* C1 as stated: a burst of accessibility.signals notifications is always
\* followed by exactly one debounced snapshot.
C1_ExactlyOne == sinceLast > D /\ burst > 0 => sentSince = 1

\* a burst of two notifications, the second replacing the timer of the
\* first, has been answered by the timer
C1_Witness == ev.type = "timerSend" /\ ev.burst = 2

\* C2 - Flush precedence.  The silenceAll flush leaves no debounce timer
\* pending, and the debounced path sends nothing after a flush until
\* _sendSignalStates has been called again (by a change notification, by
\* requestSignals or requestSettings, or by the initial send of _update).
C2_FlushPrecedence ==
  /\ sinceFlush = "clean" => DebounceTimers = {}
  /\ ev.type = "timerSend" => ev.sinceFlush # "clean"

\* C2 as stated: after a flush only a change notification can bring a
\* debounced snapshot.
C2_OnlyNotifications ==
  ev.type = "timerSend" => ev.sinceFlush \in {"none", "notif"}

\* a flush cancelled a running timer, and the debounce window has passed
\* without a snapshot from the timer
C2_Witness == sinceFlush = "clean" /\ sinceLast > D /\ sentSince = 0

\* C3 - At most one debounce timer is pending in every reachable state.
C3_OneTimer == Cardinality(DebounceTimers) <= 1

\* a notification arrived while the timer of an earlier one was running,
\* and one timer, freshly started, is pending
C3_Witness == burst = 2 /\ DebounceTimers = {NewTimer}

\* C4 - The silenceAll flush happens only when no write of the fan-out of
\* its setSilenceAllSounds invocation is still pending.
C4_FlushAfterSettle == ev.type = "flush" => ev.pending = {}

\* a flush after a fan-out of at least two writes, all of them accepted
C4_Witness ==
  /\ ev.type = "flush" /\ ev.failed = {}
  /\ Cardinality(FanoutKeys) >= 2
  /\ \A k \in FanoutKeys : store[k] = SoundValue(ev.silent)

\* C5 - Partial-failure isolation.  When the store rejects the write of one
\* key k of a master toggle and accepts the others, then at the flush the
\* other keys are muted iff the toggle's argument is true, k holds what it
\* held before the toggle, the snapshot of the flush shows just that, and no
\* invocation has been ended by an exception.
C5_PartialFailure ==
  /\ \A i \in BagToSet(invs) : i.pc # "threw"
  /\ ev.type = "flush" /\ Cardinality(idem.failing) = 1 =>
       /\ ev.failed \cap FanoutKeys = idem.failing
       /\ \A k \in FanoutKeys \ idem.failing :
            /\ (store[k] = "off") = ev.silent
            /\ Sent.states[k] = ev.silent
       /\ \A k \in idem.failing :
            /\ store[k] = idem.was[k]
            /\ Sent.states[k] = (idem.was[k] = "off")

\* a flush after a toggle that had to change both the key whose write was
\* rejected and a key whose write was accepted
C5_Witness ==
  /\ ev.type = "flush" /\ Cardinality(idem.failing) = 1
  /\ \E k \in idem.failing : idem.was[k] # SoundValue(ev.silent)
  /\ \E k \in FanoutKeys \ idem.failing : idem.was[k] # SoundValue(ev.silent)

\* C6 - Idempotence.  With a fixed set of failing keys, a second run of
\* setSilenceAllSounds(true) following a first one leaves the store as the
\* first one left it.
C6_Idempotence ==
  idem.runs = 2 /\ idem.silent /\ idem.before => idem.is = idem.was

\* two runs in a row, some writes rejected and some accepted, a rejected key
\* not muted
C6_Witness ==
  /\ idem.runs = 2 /\ idem.silent /\ idem.before
  /\ idem.failing # {} /\ idem.failing # FanoutKeys
  /\ \E k \in idem.failing : idem.is[k] # "off"

\* C7 - Derivation.  Right after the webview has applied a signalStates
\* snapshot, the master checkbox is checked iff the snapshot is true for
\* every key of ALL_SIGNALS.
C7_Derivation ==
  ev.type = "applied" => masterCb = (\A k \in SnapshotKeys : ev.states[k])

\* a snapshot with a muted and an unmuted key has been applied
C7_Witness ==
  /\ ev.type = "applied"
  /\ \E k \in SnapshotKeys : ev.states[k]
  /\ \E k \in SnapshotKeys : ~ev.states[k]

\* C8 - Full snapshot.  Every signalStates message has a boolean for exactly
\* the keys the master toggle writes and the webview shows, also when keys
\* are absent from the store.
C8_FullSnapshot ==
  \A n \in 1..Len(outbound) :
    outbound[n].type = "signalStates" =>
      /\ DOMAIN outbound[n].states = FanoutKeys
      /\ DOMAIN outbound[n].states = CbKeys
      /\ \A k \in FanoutKeys : outbound[n].states[k] \in BOOLEAN

\* a snapshot was sent while a key was absent from the store
C8_Witness ==
  /\ ev.type \in {"timerSend", "flush"}
  /\ \E k \in ModelKeys : store[k] = "absent"

\* C9 - Authoritative read.  A snapshot sent by the timer or by the flush
\* is true for a key iff the store holds sound 'off' for it in the state in
\* which it is sent.
C9_AuthoritativeRead ==
  ev.type \in {"timerSend", "flush"} =>
    /\ Sent.type = "signalStates"
    /\ \A k \in SnapshotKeys : Sent.states[k] = (store[k] = "off")

\* the timer sent a snapshot in the middle of a fan-out, one write settled
\* and another pending
C9_Witness ==
  /\ ev.type = "timerSend"
  /\ \E i \in BagToSet(invs) : i.pending # {} /\ i.pending # FanoutKeys

\* C10 - requestSignals takes the debounced path: it posts nothing in its
\* own step, and leaves exactly one debounce timer, started at that moment,
\* in place of any timer that was pending.
C10_RequestSignalsDebounced ==
  ev.type = "requestSignals" =>
    /\ Len(outbound) = ev.queued
    /\ signalDebounce = "handle"
    /\ DebounceTimers = {NewTimer}

\* C10 as stated: requestSignals sends a snapshot at once and leaves no
\* timer pending.
C10_RequestSignalsFlushes ==
  ev.type = "requestSignals" =>
    /\ Len(outbound) = ev.queued + 1
    /\ Sent.type = "signalStates"
    /\ DebounceTimers = {}

\* requestSignals arrived while a debounce timer was running
C10_Witness == ev.type = "requestSignals" /\ ev.replaced

\* C11 - The toggle command takes the system for silent iff the one signal
\* it samples, chatResponseReceived, is muted in the store, whatever the
\* other signals hold: it unmutes all iff that signal is muted, and mutes
\* all otherwise.
C11_ToggleSamplesOneKey ==
  ev.type = "toggleCmd" =>
    /\ ev.silent = ~(store["chatResponseReceived"] = "off")
    /\ BagIn(Invocation("cmd", ev.silent), invs)

\* C11 as stated: the toggle command unmutes all iff every registry signal
\* is muted.
C11_ToggleUsesAllKeys ==
  ev.type = "toggleCmd" =>
    ev.silent = ~(\A k \in FanoutKeys : store[k] = "off")

\* the command ran with the sampled signal muted and another one not
C11_Witness ==
  /\ ev.type = "toggleCmd" /\ ~ev.silent
  /\ \E k \in FanoutKeys : store[k] # "off"

\* setSilenceAllSounds has just returned
Returned == ev.type \in {"flush", "returned"}

\* C12 - setSilenceAllSounds writes, besides the sound of the registry
\* signals, its argument to projectLabel.silenceAllSounds: when that write
\* is accepted the stored flag equals the argument, and a flag that turned
\* true makes the extension run setSilenceAllSounds(true) once more.
C12_FlagPersisted ==
  Returned =>
    /\ FlagKey \notin ev.failed => flag = ev.silent
    /\ FlagKey \in ev.failed => ~ev.changed
    /\ ev.changed /\ flag => BagIn(Invocation("apply", TRUE), invs)

\* C12 as stated: a master toggle leaves every key but the registry signals
\* unchanged, the stored flag among them.
C12_MasterNotPersisted == Returned => ~ev.changed

\* a master toggle turned the stored flag true, and the run the listener
\* starts for it is in flight
C12_Witness ==
  /\ Returned /\ ev.changed /\ flag
  /\ BagIn(Invocation("apply", TRUE), invs)

\* C13 - The updateSignal handler issues one write, for the key of the
\* message, of 'off' for checked and 'on' for unchecked, and starts nothing
\* else; when that write settles, no other signal and not the flag has
\* changed, and the key holds the written value if the store accepted it
\* and its old value if not.
C13_SingleWrite ==
  [][ /\ ev'.type = "userSignal" =>
           /\ writes' = Add(writes, [key |-> ev'.key,
                                     value |-> SoundValue(cb'[ev'.key])])
           /\ UNCHANGED << store, flag, invs >>
      /\ ev'.type = "wrote" =>
           /\ writes' = Remove(writes, [key |-> ev'.key, value |-> ev'.value])
           /\ \A k \in ModelKeys \ {ev'.key} : store'[k] = store[k]
           /\ store'[ev'.key] = IF ev'.ok THEN ev'.value ELSE store[ev'.key]
           /\ UNCHANGED << flag, invs >>
    ]_vars

\* an updateSignal write changed its key, another signal holding a
\* different value
C13_Witness ==
  /\ ev.type = "wrote" /\ ev.ok /\ ev.old # ev.value
  /\ store[ev.key] = ev.value
  /\ \E k \in ModelKeys \ {ev.key} : store[k] # ev.value

\* this step, the store rejected the write of k of the fan-out of i
FanoutRejected(i, k) ==
  /\ k \in i.pending
  /\ \E j \in BagToSet(invs') :
       /\ j.origin = i.origin /\ j.silent = i.silent
       /\ j.pending = i.pending \ {k} /\ j.failed = i.failed \cup {k}
       /\ CopiesIn(j, invs') > CopiesIn(j, invs)

\* C14 - No failure of a store write escapes a handler: no invocation of
\* setSilenceAllSounds is ended by an exception and no updateSignal handler
\* throws, whichever writes the store rejects; and a step in which the store
\* rejects a write (of updateSignal, of the fan-out, of the flag) leaves
\* what that write was for unchanged.
C14_NoEscape ==
  [][ /\ \A i \in BagToSet(invs') : i.pc # "threw"
      /\ ev'.type = "wrote" => ~ev'.threw
      /\ ev'.type = "wrote" /\ ~ev'.ok => store' = store
      /\ \A i \in BagToSet(invs) : \A k \in FanoutKeys :
           FanoutRejected(i, k) => store' = store
      /\ Returned' /\ FlagKey \in ev'.failed => flag' = flag
    ]_vars

\* the silenceAll handler flushed after the store had rejected a write of
\* the fan-out and the write of the flag
C14_Witness ==
  /\ ev.type = "flush" /\ FlagKey \in ev.failed
  /\ ev.failed \cap FanoutKeys # {}

\* C15 - setSilenceAllSounds terminates and returns normally once its
\* writes have settled: whenever runs are in flight, later none is, the last
\* having returned, and no run is ever ended by an exception; whichever
\* fan-out writes the store rejects and whether or not it rejects the write
\* of the flag.
C15_Terminates ==
  /\ [](\A i \in BagToSet(invs) : i.pc # "threw")
  /\ (invs # EmptyBag) ~> (invs = EmptyBag /\ Returned)

\* a run returned although the store rejected every write of it
C15_Witness ==
  /\ Returned /\ invs = EmptyBag
  /\ idem.failing = FanoutKeys
  /\ ev.failed = FanoutKeys \cup {FlagKey}

\* the silenceAll(true) intent has just been taken up: nothing of its
\* fan-out has settled, no signal is muted, the store rejects no signal
SilenceAllStarted ==
  /\ idem.failing = {}
  /\ \A k \in ModelKeys : ~IsMuted(store[k])
  /\ \E i \in BagToSet(invs) :
       i.origin = "panel" /\ i.silent /\ i.pending = FanoutKeys

\* the handler flushed: every signal is muted in the store and the snapshot
\* just posted says so
AllMutedFlushed ==
  /\ ev.type = "flush" /\ ev.silent
  /\ \A k \in ModelKeys : IsMuted(store[k])
  /\ outbound # << >>
  /\ Sent.type = "signalStates"
  /\ \A k \in SnapshotKeys : Sent.states[k]

\* the webview applied a snapshot that reports every signal muted and its
\* master checkbox is checked
AllMutedShown ==
  /\ ev.type = "applied"
  /\ \A k \in SnapshotKeys : ev.states[k]
  /\ \A k \in CbKeys : cb[k]
  /\ masterCb

\* C16 - With every signal unmuted and nothing else in flight, a
\* silenceAll(true) whose signal writes the store accepts leads to a flush
\* with every signal muted in the store and reported muted by the snapshot
\* posted, and that leads to the webview having applied an all-muted
\* snapshot with the master checkbox checked.
C16_SilenceAllConverges ==
  /\ SilenceAllStarted ~> AllMutedFlushed
  /\ AllMutedFlushed ~> AllMutedShown

\* the all-muted snapshot of a run that started from an unmuted store was
\* applied by the webview
C16_Witness ==
  /\ AllMutedShown
  /\ idem.failing = {} /\ idem.runs = 1
  /\ \A k \in ModelKeys : ~IsMuted(idem.was[k])
  /\ \A k \in ModelKeys : IsMuted(store[k])

\* C17 - A click on one signal checkbox sends exactly one updateSignal
\* intent (one more write in flight, for that key and the checkbox's new
\* value, and no run of setSilenceAllSounds), and sets the master checkbox
\* at once to the conjunction of the signal checkboxes; and a snapshot
\* applied later that reports 'save' unmuted leaves the master unchecked.
C17_OptimisticMaster ==
  /\ ev.type = "userSignal" =>
       /\ masterCb = (\A k \in CbKeys : cb[k])
       /\ BagCardinality(writes) = ev.writes + 1
       /\ BagIn([key |-> ev.key, value |-> SoundValue(cb[ev.key])], writes)
       /\ BagCardinality(invs) = ev.invs
  /\ ev.type = "applied" /\ ~ev.states["save"] => ~masterCb

\* every signal muted and shown so, the user unchecks 'save': the master is
\* unchecked before the write has settled or any snapshot has arrived
C17_Witness ==
  /\ ev.type = "userSignal" /\ ev.key = "save"
  /\ \A k \in ModelKeys : IsMuted(store[k])
  /\ \A k \in CbKeys \ {"save"} : cb[k]
  /\ ~cb["save"] /\ ~masterCb
  /\ BagIn([key |-> "save", value |-> "on"], writes)
  /\ outbound = << >>

\* C18 - A click that sets the master checkbox to v sets every signal
\* checkbox to v at once and sends exactly one silenceAll intent with value
\* v (one more run of setSilenceAllSounds(v), started by the panel) and no
\* updateSignal intent (no more write in flight than before).
C18_OneMasterIntent ==
  ev.type = "userMaster" =>
    /\ masterCb = ev.value
    /\ \A k \in CbKeys : cb[k] = ev.value
    /\ BagCardinality(invs) = ev.invs + 1
    /\ BagIn(Invocation("panel", ev.value), invs)
    /\ BagCardinality(writes) = ev.writes

\* the master was checked while the store had an unmuted signal: every
\* checkbox is checked and the one run has not written anything yet
C18_Witness ==
  /\ ev.type = "userMaster" /\ ev.value
  /\ \A k \in CbKeys : cb[k]
  /\ \E k \in ModelKeys : ~IsMuted(store[k])
  /\ invs = SetToBag({Invocation("panel", TRUE)})
  /\ writes = EmptyBag

\* C19 - Whatever the checkboxes showed, once the webview has applied a
\* snapshot every signal checkbox shows the snapshot's value for its key
\* (and the snapshot has a value for every checkbox).
C19_LastAuthoritativeWins ==
  ev.type = "applied" =>
    \A k \in CbKeys : k \in DOMAIN ev.states /\ cb[k] = ev.states[k]

\* after a user's or an outside change, a checked box that the snapshot
\* reports unmuted was unchecked by applying it
C19_Witness ==
  /\ ev.type = "applied" /\ ev.overwrote
  /\ budget < MaxStimuli
  /\ \E k \in CbKeys : ~ev.states[k] /\ ~cb[k]

\* C20 - Whenever no store write is in flight, the sound status bar item
\* shows the muted icon exactly if chatResponseReceived is muted in the
\* store or projectLabel.silenceAllSounds is true, after any sequence of
\* master toggles, toggle commands and updateSignal intents.
C20_StatusBarTruth ==
  InFlight = 0 => soundStatusBar = StatusText(store, flag)

\* every tracked Copilot Chat signal is muted in the store
CopilotMuted == \A k \in Range(CopilotKeys) : IsMuted(store[k])

\* projectLabel.silenceCopilotChat is true at activation, or has just been
\* made true, and the store rejects no write
CopilotFlagTurnedTrue ==
  /\ copilot.failing = {}
  /\ copilot.flag
  /\ \/ ev.type = "activate"
     \/ ev.type \in {"copilotToggled", "copilotDone"} /\ ev.changed

C29_CopilotNoIsolation ==
  /\ ev.type = "copilotRejected" /\ ev.at <= Len(CopilotKeys) =>
       /\ ev.key = CopilotKeys[ev.at] /\ ev.key \in copilot.failing
       /\ copilot.runs = {}
       /\ \A j \in ev.at .. Len(CopilotKeys) :
            store[CopilotKeys[j]] = copilot.was[CopilotKeys[j]]
       /\ copilot.flag = ev.flag
  /\ \A r \in copilot.runs : \A j \in 1 .. r.next - 1 :
       CopilotKeys[j] \notin copilot.failing

\* silenceCopilot rejected at the second key: the first is muted, the
\* second and third are not, the flag is still false
C29_Witness ==
  /\ ev.type = "copilotRejected" /\ ev.at = 2 /\ ev.silent
  /\ IsMuted(store[CopilotKeys[1]]) /\ ~IsMuted(copilot.was[CopilotKeys[1]])
  /\ \A j \in 2 .. Len(CopilotKeys) : ~IsMuted(store[CopilotKeys[j]])
  /\ ~copilot.flag
  /\ CopilotFlagKey \notin copilot.failing

\* C22 - buildLabelText: a non-empty customLabel is the label; otherwise
\* the label is the project name, separator and profile name when both are
\* shown and the profile is not 'Default', the project name alone when
\* only it is shown or the profile is 'Default', the profile name alone
\* when showProjectName is off and showProfile is on, and empty when both
\* are off; so it is empty exactly if customLabel is empty and both are off.
C22_LabelText ==
  LET c == label.cfg IN
    /\ c.customLabel # Empty => label.labelText = c.customLabel
    /\ c.customLabel = Empty =>
         /\ c.showProjectName /\ c.showProfile
              /\ label.profile # << "Default" >>
              => label.labelText = label.project \o c.separator
                                     \o label.profile
         /\ c.showProjectName
              /\ (~c.showProfile \/ label.profile = << "Default" >>)
              => label.labelText = label.project
         /\ ~c.showProjectName /\ c.showProfile
              => label.labelText = label.profile
         /\ ~c.showProjectName /\ ~c.showProfile
              => label.labelText = Empty
    /\ label.labelText = Empty <=>
         c.customLabel = Empty /\ ~c.showProjectName /\ ~c.showProfile

\* after a refresh the label is project, separator and profile
C22_Witness ==
  /\ ev.type = "updateLabel" /\ ev.by = "refresh"
  /\ label.labelText = << "MyProject", " | ", "Work" >>
  /\ label.cfg.customLabel = Empty

\* C23 - After every updateLabel call the label's status bar item is
\* visible exactly if the label text is non-empty and showInStatusBar is
\* true, whatever updateWindowTitle is; the call wrote window.title only if
\* updateWindowTitle is true and the label is non-empty, and then wrote the
\* template with the label in it.
C23_Visibility ==
  ev.type = "updateLabel" =>
    /\ label.visible <=> label.labelText # Empty /\ label.cfg.showInStatusBar
    /\ label.wrote => label.cfg.updateWindowTitle /\ label.labelText # Empty
    /\ label.wrote =>
         label.title = << "[" >> \o label.labelText
                         \o << "] ", "${activeEditorShort}",
                               "${separator}", "${rootName}" >>

\* after a change of the settings the item, hidden before, is shown by a
\* call that leaves window.title alone
C23_Witness ==
  /\ ev.type = "updateLabel" /\ ev.by = "config" /\ ~ev.was
  /\ label.visible /\ ~label.cfg.updateWindowTitle /\ ~label.wrote
  /\ label.labelText # Empty

\* some write of the fan-out of a running setSilenceAllSounds is unsettled
Unsettled == \E i \in BagToSet(invs) : i.pending # {}

\* C24 - The snapshot of a silenceAll flush is read when no write of the
\* fan-out of its own toggle is pending, and is the store as it is then.
\* The debounce timer reads whenever it expires: a snapshot read while a
\* write of a fan-out is unsettled comes D after the last _sendSignalStates
\* call, not earlier, and the debounced path sends at most one per window.
C24_SettledFlush ==
  /\ ev.type = "flush" =>
       /\ ev.pending = {}
       /\ outbound # << >>
       /\ Sent = [type |-> "signalStates", states |-> Snapshot(store)]
  /\ ev.type = "timerSend" /\ Unsettled =>
       /\ ev.sinceLast = D
       /\ sentSince = 1

\* C24 as stated: no snapshot is read from the store while a write of a
\* master-toggle fan-out is unsettled.
C24_FullySettled == ev.type \in {"timerSend", "flush"} => ~Unsettled

\* the timer expired in the middle of the fan-out of a master toggle of the
\* panel: the snapshot just posted shows one signal as the toggle wants it
\* and another, whose write is pending, as it was
C24_Witness ==
  /\ ev.type = "timerSend"
  /\ \E i \in BagToSet(invs) :
       /\ i.origin = "panel"
       /\ \E k \in FanoutKeys \ i.pending : Sent.states[k] = i.silent
       /\ \E k \in i.pending : Sent.states[k] # i.silent

\* C25 - The fan-out is parallel: the step that starts setSilenceAllSounds
\* leaves the write of every registry key in flight at once, and the write
\* of any pending key can settle, accepted or rejected as the store will
\* have it, whatever has become of the writes of the other keys.
C25_ParallelFanout ==
  /\ ev.type = "userMaster" =>
       \E i \in BagToSet(invs) :
         /\ i.pending = ModelKeys \cap Range(ALL_SOUND_SIGNALS)
         /\ i.failed = {}
  /\ \A i \in BagToSet(invs) : \A k \in i.pending :
       ENABLED SettleFanout(i, k, k \notin idem.failing)

\* the write of the second key has been rejected while the write of the
\* first key, issued before it, is still in flight
C25_Witness ==
  \E i \in BagToSet(invs) :
    /\ Cardinality(ModelKeys \cap Range(ALL_SOUND_SIGNALS)) >= 2
    /\ i.pending = {"chatResponseReceived"}
    /\ i.failed = {"save"}

\* C26 - Debounce reset: the pending debounce timer always has exactly D
\* minus the time since the last _sendSignalStates call left to run, so a
\* call made while it runs restarts the full delay; the timer's snapshot
\* is sent D after the last call; and a pending timer is eventually gone,
\* by firing or, if a silenceAll handler flushes first, by that flush, and
\* then no debounce timer is pending.
C26_DebounceReset ==
  /\ [](\A t \in DebounceTimers : t.held /\ t.rem + sinceLast = D)
  /\ [](ev.type = "timerSend" => ev.sinceLast = D /\ DebounceTimers = {})
  /\ (DebounceTimers # {}) ~>
       (DebounceTimers = {} /\ ev.type \in {"timerSend", "flush"})

\* the timer restarted by the second notification of a burst has fired, D
\* after that notification, and none is pending
C26_Witness ==
  /\ ev.type = "timerSend" /\ ev.burst = 2 /\ ev.sinceLast = D
  /\ DebounceTimers = {}
  /\ sinceLast = D

\* the scheduler as the silenceAll handler finds it in this step, after
\* the listeners have heard of the flag's change
AtFlush ==
  PanelOnDidChangeConfiguration(PanelState, flag', ev'.changed, FALSE)

C28_AppliedInReadOrder ==
  [][ /\ Len(outbound') < Len(outbound) => outbound' = Tail(outbound)
      /\ Len(outbound') >= Len(outbound) =>
           /\ SubSeq(outbound', 1, Len(outbound)) = outbound
           /\ \A n \in Len(outbound) + 1 .. Len(outbound') :
                outbound'[n].type = "signalStates" =>
                  outbound'[n] = [type |-> "signalStates",
                                  states |-> Snapshot(store')]
      /\ ev'.type = "applied" =>
           /\ outbound # << >>
           /\ Head(outbound).type = "signalStates"
           /\ ev'.states = Head(outbound).states
    ]_vars

\* C28 as stated: every snapshot carries a timestamp or generation marker.
C28_CarriesMarker ==
  \A n \in 1 .. Len(outbound) :
    outbound[n].type = "signalStates" =>
      \E f \in {"timestamp", "generation"} : f \in DOMAIN outbound[n]

\* the webview has applied a snapshot while a later one, which differs from
\* it, waits in the queue
C28_Witness ==
  /\ ev.type = "applied"
  /\ \E n \in 1 .. Len(outbound) :
       /\ outbound[n].type = "signalStates"
       /\ outbound[n].states # ev.states

\* C30 - In the webview the master checkbox is checked exactly if every
\* signal checkbox is, after every handler of its script (master click,
\* signal click, signalStates, settingsUpdate); and taking a settingsUpdate
\* message changes neither the master checkbox nor a signal checkbox,
\* whatever silenceAllSounds value it carries.
C30_DisplayInvariant ==
  /\ [](masterCb <=> \A k \in CbKeys : cb[k])
  /\ [][ev'.type = "settingsApplied" => UNCHANGED << cb, masterCb >>]_vars

\* a settingsUpdate that says silenceAllSounds is true has been taken by a
\* webview whose master checkbox is, and stays, unchecked
C30_Witness ==
  /\ ev.type = "settingsApplied" /\ ev.silenceAllSounds
  /\ ~masterCb
  /\ \E k \in CbKeys : ~cb[k]

\* C37 - Registry consistency.  The list the master toggle's fan-out writes
\* (ALL_SOUND_SIGNALS), the list every snapshot is built from
\* (SettingsPanel.ALL_SIGNALS) and the data-signal attributes of the
\* signal checkboxes are the same set of 34 keys, each list naming a key
\* once, and the 10 Copilot Chat keys are among them; so every snapshot the
\* webview takes has a value for exactly the checkboxes it has.
C37_RegistryConsistent ==
  /\ Range(ALL_SOUND_SIGNALS) = Range(ALL_SIGNALS)
  /\ Range(ALL_SIGNALS) = Range(SIGNAL_CBS)
  /\ Len(ALL_SOUND_SIGNALS) = 34 /\ Len(ALL_SIGNALS) = 34
  /\ Len(SIGNAL_CBS) = 34
  /\ Cardinality(Range(ALL_SOUND_SIGNALS)) = 34
  /\ Len(COPILOT_CHAT_SIGNALS) = 10
  /\ Cardinality(Range(COPILOT_CHAT_SIGNALS)) = 10
  /\ Range(COPILOT_CHAT_SIGNALS) \subseteq Range(ALL_SOUND_SIGNALS)
  /\ DOMAIN cb = FanoutKeys
  /\ ev.type = "applied" => DOMAIN ev.states = DOMAIN cb

\* the fan-out has muted every key, a snapshot has reported every key as
\* muted and the webview has checked every checkbox from it
C37_Witness ==
  /\ ev.type = "applied"
  /\ \A k \in FanoutKeys : store[k] = "off"
  /\ \A k \in SnapshotKeys : ev.states[k]
  /\ \A k \in CbKeys : cb[k]
  /\ flag

\* no write in flight, no timer pending, no message undelivered
Quiescent ==
  /\ InFlight = 0
  /\ timers = {}
  /\ outbound = << >>

\* C31 - Convergence of the mirror.  Whenever nothing is in flight, no
\* timer is pending and no message is undelivered, every signal checkbox
\* of the webview equals the store's muted value for its key, whatever
\* master toggles and individual toggles came before and whichever of
\* their writes were rejected.
C31_MirrorConverges ==
  Quiescent => \A k \in CbKeys : cb[k] = IsMuted(store[k])

\* the master state derived from the store: every registry signal is muted
DerivedMaster(st) == \A k \in FanoutKeys : IsMuted(st[k])

\* the program started with the persisted flag equal to the derived state
InitAgreed == Init /\ flag = DerivedMaster(store)

SpecAgreed == InitAgreed /\ [][NextIntents]_vars

\* C32 - Flag and signals agree.  Started with the persisted
\* projectLabel.silenceAllSounds flag equal to the derived master state,
\* after any master toggles, toggle commands and individual toggles the flag
\* equals the derived master state (every registry signal muted) whenever
\* the program is quiescent.
C32_FlagIsDerived ==
  Quiescent => flag = DerivedMaster(store)

\* C33 - The re-application loop ends.  The invocation that
\* applySilenceAllSoundsSetting starts on the flag's change to true writes
\* the flag it finds true, which is no change and starts nothing: when it
\* completes no invocation is left; and after the last master toggle the
\* program stays without any invocation or write in flight.
C33_ReapplicationEnds ==
  /\ [][(/\ \E i \in BagToSet(invs) : i.origin = "apply" /\ i.pc = "flag"
          /\ invs' # invs)
           => (invs' = EmptyBag /\ ~ev'.changed)]_vars
  /\ <>[](InFlight = 0)

\* one intent was given, the invocation it started and the re-application
\* after it have both completed, the latter without changing the flag,
\* and nothing is in flight
C33_Witness ==
  /\ Returned /\ ev.silent /\ ~ev.changed
  /\ budget = MaxStimuli - 1
  /\ idem.runs = 2
  /\ flag
  /\ InFlight = 0

\* The panel is open on a store in which no signal is muted and the flag is
\* false; the user may click the master checkbox MaxToggles times.
InitOverlap ==
  /\ store = [k \in ModelKeys |-> "on"]
  /\ flag = FALSE
  /\ invs = EmptyBag
  /\ writes = EmptyBag
  /\ timers = {[kind |-> "initial", rem |-> InitialDelay, held |-> FALSE]}
  /\ signalDebounce = "undefined"
  /\ outbound = << >>
  /\ cb = [k \in CbKeys |-> FALSE]
  /\ masterCb = FALSE
  /\ budget = MaxToggles
  /\ sinceLast = -1
  /\ sentSince = 0
  /\ burst = 0
  /\ sinceFlush = "none"
  /\ soundStatusBar = StatusText(store, flag)
  /\ copilot = NoCopilot
  /\ label = NoLabel
  /\ lifecycle = NoLifecycle
  /\ idem = NoIdem
  /\ ev = Quiet

\* master toggles that may overlap; the store accepts every write
NextOverlap ==
  \/ UserToggleMaster
  \/ \E i \in BagToSet(invs) : \E k \in FanoutKeys : SettleFanout(i, k, TRUE)
  \/ \E i \in BagToSet(invs) : SettleFlag(i, TRUE)
  \/ \E t \in timers : DebounceFire(t)
  \/ \E t \in timers : InitialFire(t)
  \/ Tick
  \/ WebviewReceive

SpecOverlap == InitOverlap /\ [][NextOverlap]_vars

Instances == 1 .. MaxPanels

\* a SettingsPanel just constructed, before _update()
NewPanel ==
  [ timers |-> {}, deb |-> "undefined", out |-> << >>,
    sinceLast |-> -1, sentSince |-> 0, burst |-> 0, sinceFlush |-> "none" ]

NoInstance == [state |-> "none", p |-> NewPanel]

\* the scheduler's state without the history kept for the main
\* specification
Plain(p) ==
  [ p EXCEPT !.sinceLast = -1, !.sentSince = 0, !.burst = 0,
             !.sinceFlush = "none" ]

\* _update(): setTimeout(() => this._sendCurrentSettings(), 200)
Update(p) ==
  [ p EXCEPT !.timers = @ \cup {[kind |-> "initial", rem |-> InitialDelay,
                                 held |-> FALSE]} ]

\* the webview panel of instance id is open: not disposed, its listeners
\* registered
Live(id) == lifecycle.inst[id].state = "live"

\* variant: show() always constructs
ShowReuses_Never(current) == FALSE

\* show(): if (SettingsPanel.currentPanel) { reveal; _update(); return }
ShowReuses(current) == current # 0

InitLifecycle ==
  /\ PanelClosed
  /\ store = [k \in ModelKeys |-> "absent"]
  /\ copilot = NoCopilot
  /\ label = NoLabel
  /\ budget = MaxPanelEvents
  /\ lifecycle = [currentPanel |-> 0, created |-> 0,
                  inst |-> [id \in Instances |-> NoInstance]]
  /\ ev = Quiet

program == << store, flag, invs, writes, sched, outbound, webview, idem,
              soundStatusBar, copilot, label >>

\* the command projectLabel.openSettings: SettingsPanel.show()
Show ==
  /\ budget > 0
  /\ IF ShowReuses(lifecycle.currentPanel)
     THEN lifecycle' = [lifecycle EXCEPT
                          !.inst[lifecycle.currentPanel].p = Update(@)]
     ELSE /\ lifecycle.created < MaxPanels
          /\ lifecycle' =
               [lifecycle EXCEPT
                  !.created = @ + 1,
                  !.currentPanel = lifecycle.created + 1,
                  !.inst[lifecycle.created + 1] =
                     [state |-> "live", p |-> Update(NewPanel)]]
  /\ budget' = budget - 1
  /\ ev' = [type |-> "show", reused |-> ShowReuses(lifecycle.currentPanel)]
  /\ UNCHANGED program

\* the user closes the panel: onDidDispose -> dispose().  The listeners in
\* _disposables are disposed; no timer is cleared.
Dispose(id) ==
  /\ budget > 0
  /\ Live(id)
  /\ lifecycle' = [lifecycle EXCEPT
                     !.currentPanel = 0,
                     !.inst[id].state = "disposed",
                     !.inst[id].p.out = << >>]
  /\ budget' = budget - 1
  /\ ev' = [type |-> "dispose", panel |-> id]
  /\ UNCHANGED program

\* a configuration change reaches the listener of every open instance
LifecycleConfigChange(affectsProjectLabel, affectsSignals) ==
  /\ budget > 0
  /\ affectsProjectLabel \/ affectsSignals
  /\ LET heard(id) ==
           Plain(PanelOnDidChangeConfiguration(lifecycle.inst[id].p, flag,
                                               affectsProjectLabel,
                                               affectsSignals))
     IN /\ \A id \in Instances : Live(id) => Len(heard(id).out) <= MaxQueue
        /\ lifecycle' =
             [lifecycle EXCEPT
                !.inst = [id \in Instances |->
                            IF Live(id) THEN [@[id] EXCEPT !.p = heard(id)]
                            ELSE @[id]]]
  /\ budget' = budget - 1
  /\ ev' = [type |-> "configChange"]
  /\ UNCHANGED program

\* The 200 ms timer of _update() expires: _sendCurrentSettings() of the
\* instance that set it.  On a disposed panel this._panel.webview
\* .postMessage either throws out of the callback or has its message
\* dropped, as the API decides; unless it throws, _sendSignalStates()
\* follows.
LifecycleInitialFire(id, t) ==
  /\ t \in lifecycle.inst[id].p.timers
  /\ t.kind = "initial"
  /\ t.rem = 0
  /\ \E thrown \in IF Live(id) THEN {FALSE} ELSE BOOLEAN :
       LET p0 == [lifecycle.inst[id].p EXCEPT !.timers = @ \ {t}]
           p1 == IF thrown THEN p0
                 ELSE IF Live(id) THEN SendCurrentSettings(p0, flag, "other")
                 ELSE SendSignalStates(p0, "other")
       IN /\ Len(p1.out) <= MaxQueue
          /\ lifecycle' = [lifecycle EXCEPT !.inst[id].p = Plain(p1)]
          /\ ev' = [type |-> "send", msg |-> "settingsUpdate", panel |-> id,
                    disposed |-> ~Live(id), thrown |-> thrown]
  /\ UNCHANGED << program, budget >>

\* The debounce timer expires: _doSendSignalStates() of its instance.
LifecycleDebounceFire(id, t) ==
  /\ t \in lifecycle.inst[id].p.timers
  /\ t.kind = "debounce"
  /\ t.rem = 0
  /\ \E thrown \in IF Live(id) THEN {FALSE} ELSE BOOLEAN :
       LET p0 == [lifecycle.inst[id].p EXCEPT !.timers = @ \ {t}]
           p1 == IF Live(id) THEN DoSendSignalStates(p0, store) ELSE p0
       IN /\ Len(p1.out) <= MaxQueue
          /\ lifecycle' = [lifecycle EXCEPT !.inst[id].p = Plain(p1)]
          /\ ev' = [type |-> "send", msg |-> "signalStates", panel |-> id,
                    disposed |-> ~Live(id), thrown |-> thrown]
  /\ UNCHANGED << program, budget >>

\* time passes for the timers of every instance
LifecycleTick ==
  /\ \E id \in Instances : lifecycle.inst[id].p.timers # {}
  /\ \A id \in Instances : \A t \in lifecycle.inst[id].p.timers : t.rem > 0
  /\ lifecycle' =
       [lifecycle EXCEPT
          !.inst = [id \in Instances |->
                      [@[id] EXCEPT !.p.timers =
                         {[t EXCEPT !.rem = @ - 1] : t \in @}]]]
  /\ ev' = Quiet
  /\ UNCHANGED << program, budget >>

\* the webview of an open instance takes the next message
LifecycleReceive(id) ==
  /\ Live(id)
  /\ lifecycle.inst[id].p.out # << >>
  /\ lifecycle' = [lifecycle EXCEPT !.inst[id].p.out = Tail(@)]
  /\ ev' = Quiet
  /\ UNCHANGED << program, budget >>

NextLifecycle ==
  \/ Show
  \/ \E id \in Instances : Dispose(id)
  \/ \E a, b \in BOOLEAN : LifecycleConfigChange(a, b)
  \/ \E id \in Instances : \E t \in lifecycle.inst[id].p.timers :
        LifecycleInitialFire(id, t)
  \/ \E id \in Instances : \E t \in lifecycle.inst[id].p.timers :
        LifecycleDebounceFire(id, t)
  \/ LifecycleTick
  \/ \E id \in Instances : LifecycleReceive(id)

SpecLifecycle == InitLifecycle /\ [][NextLifecycle]_vars

\* C35 - Nothing is sent after dispose().  No timer callback sends a
\* settingsUpdate or signalStates message on an instance that has been
\* disposed: a timer pending at disposal never results in a send.
C35_NoSendAfterDispose ==
  ev.type = "send" => ~ev.disposed

\* C36 - Singleton panel.  At most one SettingsPanel instance is open,
\* SettingsPanel.currentPanel is set exactly if one is and then refers to
\* it, and show() on an open panel constructs no instance and leaves every
\* instance's debounce scheduler as it was.
C36_Singleton ==
  /\ [](/\ Cardinality({id \in Instances : Live(id)}) <= 1
        /\ lifecycle.currentPanel # 0 <=> \E id \in Instances : Live(id)
        /\ lifecycle.currentPanel # 0 => Live(lifecycle.currentPanel))
  /\ [][ev'.type = "show" /\ ev'.reused =>
          /\ lifecycle'.created = lifecycle.created
          /\ lifecycle'.currentPanel = lifecycle.currentPanel
          /\ \A id \in Instances :
               /\ lifecycle'.inst[id].state = lifecycle.inst[id].state
               /\ lifecycle'.inst[id].p.deb = lifecycle.inst[id].p.deb
               /\ {t \in lifecycle'.inst[id].p.timers : t.kind = "debounce"}
                    = {t \in lifecycle.inst[id].p.timers :
                         t.kind = "debounce"}]_vars

\* show() has been called on the open panel, whose debounce timer is
\* pending, and it is still the only instance
C36_Witness ==
  /\ ev.type = "show" /\ ev.reused
  /\ lifecycle.created = 1
  /\ Live(1)
  /\ \E t \in lifecycle.inst[1].p.timers : t.kind = "debounce"

====
